---- MODULE Spec2Model ----
(***************************************************************************)
(* Signup-time role assignment (AuthService.signup, SignupHook.handle) and *)
(* the user directory (UsersService) of nest-auth-permission, over the     *)
(* relational store they reach through Prisma.                             *)
(*                                                                         *)
(* A store transaction ($transaction) is one atomic step: its statements   *)
(* run in order on a working copy that is committed when none throws and   *)
(* discarded otherwise.  Requests interleave between awaited store calls   *)
(* that are not inside one transaction: between the identity provider's    *)
(* signUpEmail and the role binding, and between the hook's findUnique and *)
(* its role binding.                                                       *)
(***************************************************************************)
EXTENDS Integers, Sequences, FiniteSets, TLC

\* ------------------------------------------------------------------ bounds
\* User ids the store ever generates (signups and creates together).
MaxUsers == 2
\* Role ids the store ever generates (an aborted creation uses one up).
MaxRoleIds == 3

\* ------------------------------------------------------ program constants
\* emailAndPassword.minPasswordLength of the identity provider's config.
minPasswordLength == 8

\* ------------------------------------------------------------- input sets
\* null / undefined, by the type of the value it stands in for: a string, a
\* sequence of characters, an id.
Null == "null"
Undefined == <<"undefined">>
NoId == 0

\* Strings that the code lower-cases are sequences of characters.
EmailAdminLower == <<"a", "@">>
EmailAdminUpper == <<"A", "@">>
EmailOther == <<"b", "@">>
EmailNoAt == <<"b">>
EmailEmpty == <<>>

\* Emails that pass the e-mail format check of the DTOs and of the provider.
Emails == {EmailAdminLower, EmailAdminUpper, EmailOther}
\* Emails a client may send to the signup endpoint.
SignupEmails == Emails \cup {EmailNoAt}
\* Emails an administrator sends to POST /users and PATCH /users/:id.
DirectoryEmails == {EmailAdminLower, EmailOther}
\* The name and the password of a new user, and those an update changes them to.
NewNames == {"User 1"}
UpdatedNames == {"Updated User"}
NewPasswords == {"password123"}
UpdatedPasswords == {"newpassword123"}
\* Passwords a client may send to the signup endpoint.
SignupPasswords == NewPasswords \cup {"short"}
\* Values of ADMIN_EMAIL: unset, empty, or an address.
AdminEmailConfigs == {Undefined, <<>>, EmailAdminUpper}
\* Values of NODE_ENV in the configuration of the services.
NodeEnvConfigs == {"production", "development"}

UserIds == 1..MaxUsers

\* ------------------------------------------------------------ pure helpers
UpperCaseLetters == <<"A", "B", "C", "D", "E", "F", "G", "H", "I", "J", "K", "L", "M", "N", "O", "P", "Q", "R", "S", "T", "U", "V", "W", "X", "Y", "Z">>
LowerCaseLetters == <<"a", "b", "c", "d", "e", "f", "g", "h", "i", "j", "k", "l", "m", "n", "o", "p", "q", "r", "s", "t", "u", "v", "w", "x", "y", "z">>
LowerChar(c) ==
  IF \E i \in DOMAIN UpperCaseLetters : UpperCaseLetters[i] = c
  THEN LowerCaseLetters[CHOOSE i \in DOMAIN UpperCaseLetters : UpperCaseLetters[i] = c]
  ELSE c

\* String.prototype.toLowerCase
toLowerCase(s) == [i \in DOMAIN s |-> LowerChar(s[i])]

\* String.prototype.length of the passwords of the input sets
PasswordLength(p) ==
  CASE p = "short" -> 5
    [] p = "password123" -> 11
    [] p = "newpassword123" -> 14
    [] OTHER -> 0

\* argon2 hash: a digest that is not the plain text and that verify() accepts
\* for that plain text only.  NoPassword is the null password column.
hash(p) == <<"$argon2id$", p>>
NoPassword == <<>>

\* Format check of an e-mail address: it holds an @.
IsEmail(e) == \E i \in DOMAIN e : e[i] = "@"

\* ------------------------------------------------------------------- state
VARIABLES
  users,       \* User table: id -> [email, name, roleId]
  roles,       \* Role table: id -> [name, description]
  accounts,    \* Account table: set of [userId, accountId, providerId, password]
  nextUserId,  \* the next user id the store generates
  nextRoleId,  \* the next role id the store generates
  config,      \* ConfigService: [ADMIN_EMAIL, NODE_ENV]
  inflight,    \* signup requests between two awaited store calls
  last,        \* the outcome of the last step, as its caller sees it
  log,         \* the calls to the underlying Logger that the last step made
               \* through LoggerService, in order
  response     \* the last error response HttpExceptionFilter sent

vars == <<users, roles, accounts, nextUserId, nextRoleId, config, inflight, last, log, response>>

\* --------------------------------------------------------------- errors
NoError == [type |-> "none", code |-> "", message |-> ""]
\* Prisma.PrismaClientKnownRequestError: P2002 unique constraint, P2003 foreign
\* key constraint, P2025 record not found.
KnownRequestError(code) ==
  [type |-> "PrismaClientKnownRequestError", code |-> code, message |-> "store detail"]
\* A connection or statement fault of the store.
StoreFault == [type |-> "Error", code |-> "", message |-> "Database error"]
\* APIError of the identity provider.
APIError(code) == [type |-> "APIError", code |-> code, message |-> "provider detail"]
NotFoundException(message) == [type |-> "NotFoundException", code |-> "", message |-> message]
UnprocessableEntityException(message) ==
  [type |-> "UnprocessableEntityException", code |-> "", message |-> message]
\* new Error(message)
Error(message) == [type |-> "Error", code |-> "", message |-> message]

\* ------------------------------------------------------- store statements
NoRole == [id |-> NoId, name |-> Null, description |-> Null]

\* A transaction context: the working copy of the tables, the id generators,
\* the error thrown so far, and the rows the last statements returned.
Begin ==
  [users |-> users, roles |-> roles, accounts |-> accounts,
   nextUserId |-> nextUserId, nextRoleId |-> nextRoleId,
   err |-> NoError, role |-> NoRole, user |-> NoId]

\* Statement k of a transaction: skipped once an earlier one threw, replaced
\* by a store fault when the fault is injected at k.
Step(tx, k, fault, result) ==
  IF tx.err # NoError THEN tx
  ELSE IF fault = k THEN [tx EXCEPT !.err = StoreFault]
  ELSE result

RoleByName(rs, name) == {r \in DOMAIN rs : rs[r].name = name}
UserByEmail(us, email) == {u \in DOMAIN us : us[u].email = email}
UserById(us, id) == {u \in DOMAIN us : u = id}

\* tx.role.upsert({ where: { name }, update: {}, create: { name, description } })
\* with Role.name unique: the row of that name, created when there is none.
roleUpsertCheckThenCreate(tx, name, description) ==
  [tx EXCEPT !.roles = tx.roles @@ (tx.nextRoleId :> [name |-> name, description |-> description]),
             !.nextRoleId = tx.nextRoleId + 1,
             !.role = [id |-> tx.nextRoleId, name |-> name, description |-> description]]

roleUpsert(tx, name, description) ==
  LET found == RoleByName(tx.roles, name) IN
  IF found # {}
  THEN LET r == CHOOSE x \in found : TRUE IN
       [tx EXCEPT !.role = [id |-> r, name |-> tx.roles[r].name,
                            description |-> tx.roles[r].description]]
  ELSE [tx EXCEPT !.roles = tx.roles @@ (tx.nextRoleId :> [name |-> name, description |-> description]),
                  !.nextRoleId = tx.nextRoleId + 1,
                  !.role = [id |-> tx.nextRoleId, name |-> name, description |-> description]]

\* The unique constraint on User.email: whether a row other than `u` has the
\* email.
emailTakenNever(us, u, email) == FALSE

emailTaken(us, u, email) == \E v \in DOMAIN us \ {u} : us[v].email = email

\* User.role -> Role (many-to-one, optional): whether the store admits `roleId`
\* as the role reference of a User row.
roleReferenceUnchecked(rs, roleId) == TRUE

roleReference(rs, roleId) == roleId = NoId \/ roleId \in DOMAIN rs

\* A field of `data`: the value `absent` stands for a field left out, which the
\* store leaves as it is.
dataFieldOverwritten(given, absent, old) == given

dataField(given, absent, old) == IF given = absent THEN old ELSE given

\* user.update({ where, data }): `match` is the set of rows the unique `where`
\* selects, `data` holds Undefined / Null / NoId for the fields left out.
userUpdate(tx, match, data) ==
  IF match = {} THEN [tx EXCEPT !.err = KnownRequestError("P2025")]
  ELSE
    LET u == CHOOSE x \in match : TRUE
        old == tx.users[u]
        new == [email |-> dataField(data.email, Undefined, old.email),
                name |-> dataField(data.name, Null, old.name),
                roleId |-> dataField(data.roleId, NoId, old.roleId)]
    IN
    IF emailTaken(tx.users, u, new.email)
    THEN [tx EXCEPT !.err = KnownRequestError("P2002")]
    ELSE IF ~roleReference(tx.roles, new.roleId)
    THEN [tx EXCEPT !.err = KnownRequestError("P2003")]
    ELSE [tx EXCEPT !.users[u] = new, !.user = u]

\* user.create({ data: { email, name, roleId } }) with User.email unique and
\* User.roleId an optional reference to Role.
userCreate(tx, email, name, roleId) ==
  IF emailTaken(tx.users, NoId, email)
  THEN [tx EXCEPT !.err = KnownRequestError("P2002")]
  ELSE IF ~roleReference(tx.roles, roleId)
  THEN [tx EXCEPT !.err = KnownRequestError("P2003")]
  ELSE [tx EXCEPT !.users = tx.users @@
                     (tx.nextUserId :> [email |-> email, name |-> name, roleId |-> roleId]),
                  !.nextUserId = tx.nextUserId + 1,
                  !.user = tx.nextUserId]

\* account.create({ data }) with Account.userId a reference to User.
accountCreate(tx, row) ==
  IF row.userId \notin DOMAIN tx.users
  THEN [tx EXCEPT !.err = KnownRequestError("P2003")]
  ELSE [tx EXCEPT !.accounts = tx.accounts \cup {row}]

\* account.updateMany({ where: { userId, accountId, providerId }, data: { password } })
accountUpdateManyByUserId(tx, where, password) ==
  [tx EXCEPT !.accounts =
     {IF a.userId = where.userId THEN [a EXCEPT !.password = password] ELSE a : a \in tx.accounts}]

accountUpdateMany(tx, where, password) ==
  [tx EXCEPT !.accounts =
     {IF a.userId = where.userId /\ a.accountId = where.accountId
         /\ a.providerId = where.providerId
      THEN [a EXCEPT !.password = password] ELSE a : a \in tx.accounts}]

\* User.accounts -> Account (one-to-many, cascade delete): the Account rows left
\* when the User row `id` is deleted.
cascadeDeleteNone(rows, id) == rows

cascadeDelete(rows, id) == {a \in rows : a.userId # id}

\* user.delete({ where: { id } })
userDelete(tx, id) ==
  IF id \notin DOMAIN tx.users THEN [tx EXCEPT !.err = KnownRequestError("P2025")]
  ELSE [tx EXCEPT !.users = [u \in DOMAIN tx.users \ {id} |-> tx.users[u]],
                  !.accounts = cascadeDelete(tx.accounts, id),
                  !.user = id]

\* prisma.$transaction(callback): the working copy when the callback returned,
\* the tables as they were when it threw.  Generated ids are not given back.
TransactionNoRollback(tx) == tx

Transaction(tx) ==
  IF tx.err = NoError THEN tx
  ELSE [tx EXCEPT !.users = users, !.roles = roles, !.accounts = accounts]

\* include: { role: true }
NoUser == [id |-> NoId, email |-> Undefined, name |-> Null, roleId |-> NoId, role |-> NoRole]
WithRole(us, rs, id) ==
  IF id \notin DOMAIN us THEN NoUser
  ELSE [id |-> id, email |-> us[id].email, name |-> us[id].name, roleId |-> us[id].roleId,
        role |-> IF us[id].roleId \in DOMAIN rs
                 THEN [id |-> us[id].roleId, name |-> rs[us[id].roleId].name,
                       description |-> rs[us[id].roleId].description]
                 ELSE NoRole]

\* ------------------------------------------------------- UsersService
\* What a call gives its caller, and what it did to the store.
Outcome(tx, error, ret) ==
  [tx |-> tx, ok |-> error = NoError, error |-> error, ret |-> IF error = NoError THEN ret ELSE NoUser]

IsKnown(err, code) == err.type = "PrismaClientKnownRequestError" /\ err.code = code

\* The catch block of create: P2002 becomes the generic 422, the rest is rethrown.
createCatchRethrow(error) == error

createCatch(error) ==
  IF IsKnown(error, "P2002") THEN UnprocessableEntityException("Invalid Credentials")
  ELSE error

\* The catch blocks of update, updateRole and remove: P2025 becomes the 404, the
\* rest is rethrown.
notFoundCatchRethrow(error) == error

notFoundCatch(error) ==
  IF IsKnown(error, "P2025") THEN NotFoundException("User not found") ELSE error

\* The callback of create's $transaction.
createStatements(dto, fault) ==
  LET t0 == Begin
      t1 == IF dto.roleId = NoId
            THEN Step(t0, 1, fault, roleUpsert(t0, "USER", "Regular user"))
            ELSE t0
      roleId == IF dto.roleId = NoId THEN t1.role.id ELSE dto.roleId
      t2 == Step(t1, 2, fault, userCreate(t1, dto.email, dto.name, roleId))
      t3 == Step(t2, 3, fault,
                 accountCreate(t2, [userId |-> t2.user, providerId |-> "credential",
                                    accountId |-> t2.user, password |-> hash(dto.password)]))
  IN t3

\* UsersService.create(dto)
create(dto, fault) ==
  LET tx == Transaction(createStatements(dto, fault)) IN
  Outcome(tx, createCatch(tx.err), WithRole(tx.users, tx.roles, tx.user))

\* The callback of update's $transaction.
updateStatements(id, dto, fault) ==
  LET t0 == Begin
      t1 == Step(t0, 1, fault,
                 userUpdate(t0, UserById(t0.users, id),
                            [email |-> dto.email, name |-> dto.name, roleId |-> NoId]))
      t2 == IF dto.password # Null
            THEN Step(t1, 2, fault,
                      accountUpdateMany(t1, [userId |-> id, accountId |-> id,
                                             providerId |-> "credential"],
                                        hash(dto.password)))
            ELSE t1
  IN t2

\* UsersService.update(id, dto)
update(id, dto, fault) ==
  LET tx == Transaction(updateStatements(id, dto, fault)) IN
  Outcome(tx, notFoundCatch(tx.err),
          WithRole(tx.users, tx.roles, id))

\* UsersService.updateRole(id, roleId)
updateRole(id, roleId) ==
  LET tx == userUpdate(Begin, UserById(users, id),
                       [email |-> Undefined, name |-> Null, roleId |-> roleId]) IN
  Outcome(tx, notFoundCatch(tx.err),
          WithRole(tx.users, tx.roles, id))

\* UsersService.remove(id)
remove(id) ==
  LET tx == userDelete(Begin, id) IN
  Outcome(tx, notFoundCatch(tx.err),
          WithRole(users, roles, id))

\* UsersService.findOne(id)
findOne(id) ==
  Outcome(Begin,
          IF UserById(users, id) = {} THEN NotFoundException("User not found") ELSE NoError,
          WithRole(users, roles, id))

\* ------------------------------------------------- identity provider
\* The user as the provider returns it (no role joined).
UserOnly(us, id) ==
  IF id \notin DOMAIN us THEN NoUser
  ELSE [id |-> id, email |-> us[id].email, name |-> us[id].name, roleId |-> us[id].roleId,
        role |-> NoRole]

\* nestAuthService.api.signUpEmail({ body }) and POST /api/auth/sign-up/email:
\* rejects a malformed e-mail, a password shorter than minPasswordLength and a
\* registered e-mail; otherwise stores the user, without a role, and its
\* password account.
signUpEmailCreateBeforeCheck(body) ==
  LET t0 == Begin
      t1 == userCreate(t0, body.email, body.name, NoId)
      t2 == accountCreate(t1, [userId |-> t1.user, providerId |-> "credential",
                               accountId |-> t1.user, password |-> hash(body.password)])
  IN
  IF ~IsEmail(body.email)
  THEN Outcome(t0, APIError("INVALID_EMAIL"), NoUser)
  ELSE IF UserByEmail(users, body.email) # {}
  THEN Outcome(t0, APIError("USER_ALREADY_EXISTS_USE_ANOTHER_EMAIL"), NoUser)
  ELSE IF PasswordLength(body.password) < minPasswordLength
  THEN Outcome(t2, APIError("PASSWORD_TOO_SHORT"), NoUser)
  ELSE Outcome(t2, NoError, UserOnly(t2.users, t2.user))

signUpEmail(body) ==
  LET t0 == Begin
      t1 == userCreate(t0, body.email, body.name, NoId)
      t2 == accountCreate(t1, [userId |-> t1.user, providerId |-> "credential",
                               accountId |-> t1.user, password |-> hash(body.password)])
  IN
  IF ~IsEmail(body.email)
  THEN Outcome(t0, APIError("INVALID_EMAIL"), NoUser)
  ELSE IF PasswordLength(body.password) < minPasswordLength
  THEN Outcome(t0, APIError("PASSWORD_TOO_SHORT"), NoUser)
  ELSE IF UserByEmail(users, body.email) # {}
  THEN Outcome(t0, APIError("USER_ALREADY_EXISTS_USE_ANOTHER_EMAIL"), NoUser)
  ELSE Outcome(t2, NoError, UserOnly(t2.users, t2.user))

\* ------------------------------------------ AuthService and SignupHook
\* isAdminEmail(email): adminEmail?.toLowerCase() === email.toLowerCase()
isAdminEmailCaseSensitive(email) ==
  config.ADMIN_EMAIL # Undefined /\ config.ADMIN_EMAIL = email

isAdminEmail(email) ==
  LET adminEmail == config.ADMIN_EMAIL IN
  IF adminEmail = Undefined THEN FALSE
  ELSE toLowerCase(adminEmail) = toLowerCase(email)

\* isAdmin ? 'ADMIN' : 'USER' on the result of isAdminEmail
classify(email) == IF isAdminEmail(email) THEN "ADMIN" ELSE "USER"

\* The callback of assignUserRole's $transaction.
assignUserRoleStatements(email, isAdmin, fault) ==
  LET adminOrUserRole == IF isAdmin THEN "ADMIN" ELSE "USER"
      t0 == Begin
      t1 == Step(t0, 1, fault,
                 roleUpsert(t0, adminOrUserRole,
                            IF isAdmin THEN "Administrator" ELSE "Regular user"))
      t2 == Step(t1, 2, fault,
                 userUpdate(t1, UserByEmail(t1.users, email),
                            [email |-> Undefined, name |-> Null, roleId |-> t1.role.id]))
  IN t2

\* assignUserRole(email, isAdmin)
assignUserRole(email, isAdmin, fault) ==
  LET tx == Transaction(assignUserRoleStatements(email, isAdmin, fault)) IN
  Outcome(tx, tx.err, UserOnly(tx.users, tx.user))

\* The catch blocks of AuthService.signup and SignupHook.handle.
catchRethrow(error) == error

catch(error) == Error("Unable to create account")

\* The catch block of AuthService.signup, on the outcome of what its try block
\* ran last: it throws the generic error and writes nothing to the store, so a
\* user the identity provider has created stays.
signupCatchCompensate(out, email) ==
  Outcome([out.tx EXCEPT
             !.users = [u \in DOMAIN out.tx.users \ UserByEmail(out.tx.users, email) |->
                          out.tx.users[u]],
             !.accounts = {a \in out.tx.accounts :
                             a.userId \notin UserByEmail(out.tx.users, email)}],
          catch(out.error), NoUser)

signupCatch(out, email) == Outcome(out.tx, catch(out.error), NoUser)

\* if (!user) of SignupHook.handle
userNotCreatedNever(found) == FALSE

userNotCreated(found) == found = {}

\* ------------------------------------------------------- LoggerService
\* Values of a log context: strings (sequences of characters), numbers, null,
\* arrays and objects; `items` holds the entries of an object, in insertion
\* order, and those of an array under the empty key.
String(str) == [kind |-> "string", str |-> str, items |-> <<>>]
Number(digits) == [kind |-> "number", str |-> digits, items |-> <<>>]
JsNull == [kind |-> "null", str |-> <<>>, items |-> <<>>]
NoContext == [kind |-> "undefined", str |-> <<>>, items |-> <<>>]
Entry(key, value) == [key |-> key, value |-> value]
Object(entries) == [kind |-> "object", str |-> <<>>, items |-> entries]
Array(values) ==
  [kind |-> "array", str |-> <<>>, items |-> [i \in DOMAIN values |-> Entry(<<>>, values[i])]]

\* String.prototype.includes
includes(str, searchString) ==
  \E i \in 0..(Len(str) - Len(searchString)) :
    SubSeq(str, i + 1, i + Len(searchString)) = searchString

\* const sensitiveKeys = ['password', 'token', 'secret', 'key']
sensitiveKeys == <<<<"p", "a", "s", "s", "w", "o", "r", "d">>, <<"t", "o", "k", "e", "n">>, <<"s", "e", "c", "r", "e", "t">>, <<"k", "e", "y">>>>

\* sensitiveKeys.some(s => key.toLowerCase().includes(s))
isSensitive(key) ==
  \E i \in DOMAIN sensitiveKeys : includes(toLowerCase(key), sensitiveKeys[i])

\* value.substring(0, Math.min(4, value.length))
substring4(value) == SubSeq(value, 1, IF Len(value) < 4 THEN Len(value) ELSE 4)

RECURSIVE sanitize(_)
RECURSIVE sanitizeValue(_, _)

\* sanitizeValue(key, value, sensitiveKeys, sanitize)
sanitizeValue(key, value) ==
  IF ~isSensitive(key) THEN sanitize(value)
  ELSE IF value.kind = "string" /\ Len(value.str) > 0
  THEN String(substring4(value.str) \o <<"*", "*", "*", "*", "*", "*">>)
  ELSE String(<<"R", "E", "D", "A", "C", "T", "E", "D">>)

\* const sanitize = (obj: unknown): unknown => ...
sanitize(obj) ==
  IF obj.kind = "array"
  THEN [obj EXCEPT !.items =
          [i \in DOMAIN obj.items |-> Entry(<<>>, sanitize(obj.items[i].value))]]
  ELSE IF obj.kind = "object"
  THEN [obj EXCEPT !.items =
          [i \in DOMAIN obj.items |->
             Entry(obj.items[i].key, sanitizeValue(obj.items[i].key, obj.items[i].value))]]
  ELSE obj

\* sanitizeContext(context)
sanitizeContext(context) == sanitize(context)

\* JSON.stringify of the values above (their strings hold no character that
\* JSON escapes): an entry of an object whose value is undefined is left out,
\* an undefined element of an array is written null.
RECURSIVE stringifyItems(_, _, _)
RECURSIVE stringify(_)
stringify(value) ==
  CASE value.kind = "string" -> <<"\"">> \o value.str \o <<"\"">>
    [] value.kind = "number" -> value.str
    [] value.kind = "array" -> <<"[">> \o stringifyItems(value.items, 1, FALSE) \o <<"]">>
    [] value.kind = "object" ->
         <<"{">>
         \o stringifyItems(SelectSeq(value.items, LAMBDA e : e.value.kind # "undefined"), 1, TRUE)
         \o <<"}">>
    [] OTHER -> <<"n", "u", "l", "l">>

stringifyItems(items, i, withKeys) ==
  IF i > Len(items) THEN <<>>
  ELSE (IF i > 1 THEN <<",">> ELSE <<>>)
       \o (IF withKeys THEN <<"\"">> \o items[i].key \o <<"\"", ":">> ELSE <<>>)
       \o stringify(items[i].value)
       \o stringifyItems(items, i + 1, withKeys)

\* formatMessage(message, context)
formatMessage(message, context) ==
  IF context.kind = "undefined" \/ Len(context.items) = 0 THEN message
  ELSE message \o <<" ">> \o stringify(sanitizeContext(context))

\* A call of log(level, message, context), and the arguments it calls the
\* underlying Logger with: this.logger[level](formattedMessage, context).
logCall(level, message, context) == [level |-> level, message |-> message, context |-> context]

loggerArguments(call) ==
  [formattedMessage |-> formatMessage(call.message, call.context), context |-> call.context]

\* Inputs of LoggerService: a message, keys (sensitive in three spellings, and
\* two that are not), string values of 3, 4, 5 and 9 characters, the empty
\* string, a number and null, in contexts of up to two levels.
LogMessages == {<<"T", "e", "s", "t">>}
LogLevels == {"log", "warn", "error", "debug", "verbose"}
SensitiveLogKeys == {<<"p", "a", "s", "s", "w", "o", "r", "d">>, <<"T", "o", "k", "e", "n">>, <<"A", "p", "i", "K", "e", "y">>}
PlainLogKeys == {<<"u", "s", "e", "r", "I", "d">>, <<"n", "e", "s", "t", "e", "d">>}
LogStrings == {<<"a", "b", "c">>, <<"a", "b", "c", "d">>, <<"a", "b", "c", "d", "e">>, <<"s", "e", "c", "r", "e", "t", "1", "2", "3">>}
LogLeaves == {String(v) : v \in LogStrings} \cup {String(<<>>), Number(<<"5">>), JsNull}
FlatContexts == {Object(<<Entry(k, v)>>) : k \in SensitiveLogKeys \cup PlainLogKeys, v \in LogLeaves}
SecretContexts == {Object(<<Entry(k, String(v))>>) : k \in SensitiveLogKeys, v \in LogStrings}
LogContexts ==
  {NoContext, Object(<<>>)}
  \cup FlatContexts
  \cup {Object(<<Entry(<<"u", "s", "e", "r", "I", "d">>, String(<<"1", "2", "3">>)), Entry(k, v)>>) :
          k \in SensitiveLogKeys, v \in LogLeaves}
  \cup {Object(<<Entry(k, c)>>) : k \in PlainLogKeys \cup {<<"p", "a", "s", "s", "w", "o", "r", "d">>}, c \in SecretContexts}
  \cup {Object(<<Entry(<<"n", "e", "s", "t", "e", "d">>, Array(<<c>>))>>) : c \in SecretContexts}

\* -------------------------------------------------- HttpExceptionFilter
JsUndefined == NoContext

\* Number.prototype.toString of a status code
Digits == <<"0", "1", "2", "3", "4", "5", "6", "7", "8", "9">>
statusDigits(n) ==
  <<Digits[(n \div 100) + 1], Digits[((n \div 10) % 10) + 1], Digits[(n % 10) + 1]>>

INTERNAL_SERVER_ERROR == 500

\* Thrown values: an HttpException (status, response, message, name, stack),
\* a plain Error (message, name, stack), or a value that is no Error.
HttpException(status, resp, message, name, stack) ==
  [kind |-> "HttpException", status |-> status, response |-> resp, message |-> message,
   name |-> name, stack |-> stack, value |-> JsUndefined]
StandardError(message, name, stack) ==
  [kind |-> "Error", status |-> 0, response |-> JsUndefined, message |-> message,
   name |-> name, stack |-> stack, value |-> JsUndefined]
NonError(value) ==
  [kind |-> "unknown", status |-> 0, response |-> JsUndefined, message |-> <<>>,
   name |-> <<>>, stack |-> JsUndefined, value |-> value]

\* exception instanceof Error
instanceofError(exception) == exception.kind \in {"HttpException", "Error"}

\* The stack spread into the response whatever the environment.
stackFieldAlways(NODE_ENV, stack) == [has |-> TRUE, stack |-> stack]

\* ...(process.env.NODE_ENV === 'development' && { stack })
stackField(NODE_ENV, stack) ==
  IF NODE_ENV = "development" THEN [has |-> TRUE, stack |-> stack]
  ELSE [has |-> FALSE, stack |-> JsUndefined]

ErrorResponse(base, statusCode, message, error, field) ==
  [timestamp |-> base.timestamp, path |-> base.path, method |-> base.method,
   statusCode |-> statusCode, message |-> message, error |-> error,
   hasStack |-> field.has, stack |-> field.stack]

\* (exceptionResponse as { message? }).message
messageOf(exceptionResponse) ==
  IF \E i \in DOMAIN exceptionResponse.items : exceptionResponse.items[i].key = <<"m", "e", "s", "s", "a", "g", "e">>
  THEN exceptionResponse.items[
         CHOOSE i \in DOMAIN exceptionResponse.items : exceptionResponse.items[i].key = <<"m", "e", "s", "s", "a", "g", "e">>].value
  ELSE JsUndefined

\* value || fallback, for the strings and arrays a message can be
orElse(value, fallback) ==
  IF value.kind = "undefined" \/ (value.kind = "string" /\ value.str = <<>>) THEN fallback
  ELSE value

buildHttpExceptionResponse(exception, baseResponse, NODE_ENV) ==
  ErrorResponse(baseResponse, exception.status,
                IF exception.response.kind = "string" THEN exception.response
                ELSE orElse(messageOf(exception.response), String(exception.message)),
                exception.name, stackField(NODE_ENV, exception.stack))

buildStandardErrorResponse(exception, baseResponse, NODE_ENV) ==
  ErrorResponse(baseResponse, INTERNAL_SERVER_ERROR,
                orElse(String(exception.message), String(<<"I", "n", "t", "e", "r", "n", "a", "l", " ", "s", "e", "r", "v", "e", "r", " ", "e", "r", "r", "o", "r">>)),
                exception.name, stackField(NODE_ENV, exception.stack))

\* String(exception), for a thrown value that is a string, a number, null,
\* undefined or a plain object
toStr(value) ==
  CASE value.kind \in {"string", "number"} -> value.str
    [] value.kind = "null" -> <<"n", "u", "l", "l">>
    [] value.kind = "undefined" -> <<"u", "n", "d", "e", "f", "i", "n", "e", "d">>
    [] value.kind = "object" -> <<"[", "o", "b", "j", "e", "c", "t", " ", "O", "b", "j", "e", "c", "t", "]">>

buildUnknownErrorResponse(exception, baseResponse, NODE_ENV) ==
  ErrorResponse(baseResponse, INTERNAL_SERVER_ERROR, String(<<"A", "n", " ", "u", "n", "e", "x", "p", "e", "c", "t", "e", "d", " ", "e", "r", "r", "o", "r", " ", "o", "c", "c", "u", "r", "r", "e", "d">>),
                <<"U", "n", "k", "n", "o", "w", "n", "E", "r", "r", "o", "r">>, stackField(NODE_ENV, String(toStr(exception.value))))

buildErrorResponse(exception, request, NODE_ENV) ==
  IF exception.kind = "HttpException"
  THEN buildHttpExceptionResponse(exception, request, NODE_ENV)
  ELSE IF exception.kind = "Error"
  THEN buildStandardErrorResponse(exception, request, NODE_ENV)
  ELSE buildUnknownErrorResponse(exception, request, NODE_ENV)

\* logError(errorResponse, exception): the call to LoggerService
logError(errorResponse, exception) ==
  LET isServerError == errorResponse.statusCode >= 500
  IN logCall(IF isServerError THEN "error" ELSE "warn",
             IF isServerError THEN <<"S", "e", "r", "v", "e", "r", " ", "e", "r", "r", "o", "r", " ", "o", "c", "c", "u", "r", "r", "e", "d">> ELSE <<"C", "l", "i", "e", "n", "t", " ", "e", "r", "r", "o", "r", " ", "o", "c", "c", "u", "r", "r", "e", "d">>,
             Object(<<Entry(<<"s", "t", "a", "t", "u", "s", "C", "o", "d", "e">>, Number(statusDigits(errorResponse.statusCode))),
                      Entry(<<"p", "a", "t", "h">>, String(errorResponse.path)),
                      Entry(<<"m", "e", "t", "h", "o", "d">>, String(errorResponse.method)),
                      Entry(<<"m", "e", "s", "s", "a", "g", "e">>, errorResponse.message)>>
                    \o (IF isServerError /\ instanceofError(exception)
                        THEN <<Entry(<<"s", "t", "a", "c", "k">>, exception.stack)>> ELSE <<>>)))

NoResponse ==
  [NODE_ENV |-> "none", exception |-> NonError(JsUndefined),
   body |-> ErrorResponse([timestamp |-> 0, path |-> <<>>, method |-> <<>>], 0, JsUndefined,
                          <<>>, [has |-> FALSE, stack |-> JsUndefined])]

\* Inputs of the filter.
NodeEnvs == {"development", "production", "test", "undefined"}
Requests ==
  {[timestamp |-> t, path |-> u, method |-> m] :
     t \in {1}, u \in {<<"/", "d", "e", "m", "o">>}, m \in {<<"G", "E", "T">>, <<"P", "O", "S", "T">>}}
Stacks == {String(<<"a", "t", " ", "f">>), JsUndefined}
HttpStatuses == {400, 404, 422, 503}
HttpResponses ==
  {String(<<"b", "a", "d">>), Object(<<Entry(<<"m", "e", "s", "s", "a", "g", "e">>, String(<<"b", "a", "d">>))>>),
   Object(<<Entry(<<"m", "e", "s", "s", "a", "g", "e">>, Array(<<String(<<"b", "a", "d">>)>>))>>), Object(<<>>)}
Exceptions ==
  {HttpException(c, r, <<"b", "a", "d">>, <<"H", "t", "t", "p", "E", "x", "c", "e", "p", "t", "i", "o", "n">>, k) : c \in HttpStatuses, r \in HttpResponses, k \in Stacks}
  \cup {StandardError(m, <<"E", "r", "r", "o", "r">>, k) : m \in {<<>>, <<"b", "a", "d">>}, k \in Stacks}
  \cup {NonError(v) : v \in {String(<<"b", "a", "d">>), Number(<<"5">>), JsNull, Object(<<>>)}}

\* ------------------------------------------------ what the services log
\* A text that nothing looks into is one element of a string.
Text(t) == String(<<t>>)
\* An id, a string in the store, by its digit.
IdText(id) == IF id = NoId THEN JsNull ELSE String(<<Digits[id + 1]>>)

\* LoggerService.info / warn / error / debug
info(message, context) == logCall("log", <<message>>, context)
warn(message, context) == logCall("warn", <<message>>, context)
error(message, context) == logCall("error", <<message>>, context)
debug(message, context) == logCall("debug", <<message>>, context)

\* error: error instanceof Error ? error.message : String(error)
errorDetail(err) == Entry(<<"e", "r", "r", "o", "r">>, Text(err.message))
action(name) == Entry(<<"a", "c", "t", "i", "o", "n">>, Text(name))

\* const isProd = this.config.get<string>('NODE_ENV') === 'production'
isProd == config.NODE_ENV = "production"

\* { user }: the User row as the store returns it
UserObject(user) ==
  Object(<<Entry(<<"i", "d">>, IdText(user.id)), Entry(<<"e", "m", "a", "i", "l">>, String(user.email)),
           Entry(<<"n", "a", "m", "e">>, Text(user.name)), Entry(<<"r", "o", "l", "e", "I", "d">>, IdText(user.roleId))>>)

\* The logger calls of UsersService.findOne
findOneLog(id) ==
  <<info("Fetching user by ID in service",
         Object(<<action("findOne"), Entry(<<"u", "s", "e", "r", "I", "d">>, IdText(id))>>))>>
  \o (IF UserById(users, id) # {}
      THEN <<info("User fetched successfully in service",
                  Object(<<action("findOne"), Entry(<<"u", "s", "e", "r", "I", "d">>, IdText(id))>>))>>
      ELSE <<error("Failed to fetch user in service",
                   Object(<<action("findOne"),
                            errorDetail(NotFoundException("User not found"))>>))>>)

\* The logger calls of UsersService.create
createLog(dto, fault) ==
  LET tx == Transaction(createStatements(dto, fault)) IN
  <<info("Creating user in service",
         Object(<<action("create"), Entry(<<"e", "m", "a", "i", "l">>, String(dto.email))>>))>>
  \o (IF tx.err = NoError
      THEN <<info("User created successfully in service",
                  Object(<<action("create"), Entry(<<"u", "s", "e", "r", "I", "d">>, IdText(tx.user))>>))>>
      ELSE <<error("Failed to create user in service",
                   Object(<<action("create"), errorDetail(tx.err)>>))>>
           \o (IF IsKnown(tx.err, "P2002")
               THEN <<warn("Duplicate email detected in service", Object(<<action("create")>>))>>
               ELSE <<>>))

\* The logger calls of UsersService.update
updateLog(id, dto, fault) ==
  LET tx == Transaction(updateStatements(id, dto, fault)) IN
  <<info("Updating user in service",
         Object(<<action("update"), Entry(<<"u", "s", "e", "r", "I", "d">>, IdText(id))>>))>>
  \o (IF tx.err = NoError
      THEN <<info("User updated successfully in service",
                  Object(<<action("update"), Entry(<<"u", "s", "e", "r", "I", "d">>, IdText(id))>>))>>
      ELSE <<error("Failed to update user in service",
                   Object(<<action("update"), errorDetail(tx.err)>>))>>)

\* The logger calls of UsersService.updateRole
updateRoleLog(id, roleId) ==
  LET tx == userUpdate(Begin, UserById(users, id),
                       [email |-> Undefined, name |-> Null, roleId |-> roleId]) IN
  <<info("Updating user role in service",
         Object(<<action("updateRole"), Entry(<<"u", "s", "e", "r", "I", "d">>, IdText(id)),
                  Entry(<<"r", "o", "l", "e", "I", "d">>, IdText(roleId))>>))>>
  \o (IF tx.err = NoError
      THEN <<info("User role updated successfully in service",
                  Object(<<action("updateRole"), Entry(<<"u", "s", "e", "r", "I", "d">>, IdText(id))>>))>>
      ELSE <<error("Failed to update user role in service",
                   Object(<<action("updateRole"), errorDetail(tx.err)>>))>>)

\* The logger calls of UsersService.remove
removeLog(id) ==
  LET tx == userDelete(Begin, id) IN
  <<info("Deleting user in service",
         Object(<<action("remove"), Entry(<<"u", "s", "e", "r", "I", "d">>, IdText(id))>>))>>
  \o (IF tx.err = NoError
      THEN <<info("User deleted successfully in service",
                  Object(<<action("remove"), Entry(<<"u", "s", "e", "r", "I", "d">>, IdText(id))>>))>>
      ELSE <<error("Failed to delete user in service",
                   Object(<<action("remove"), errorDetail(tx.err)>>))>>)

\* The logger calls of AuthService.signup around signUpEmail: the info after
\* it returned, the error of the catch block when it threw.
signupIdentityLog(dto, out) ==
  IF isProd THEN <<>>
  ELSE IF out.ok
  THEN <<info("User signed up in service",
              Object(<<Entry(<<"e", "m", "a", "i", "l">>, String(dto.email)), Entry(<<"n", "a", "m", "e">>, Text(dto.name))>>))>>
  ELSE <<error("Failed to sign up user in service", Object(<<errorDetail(out.error)>>))>>

\* The logger calls of AuthService.signup from isAdminEmail on.
signupAssignLog(email, out) ==
  IF isProd THEN <<>>
  ELSE <<info("User role assigned in auth service",
              Object(<<Entry(<<"r", "o", "l", "e">>, Text(classify(email)))>>))>>
       \o (IF out.ok
           THEN <<info("Successfully signed up user in service:",
                       Object(<<Entry(<<"u", "s", "e", "r">>, UserObject(out.ret))>>))>>
           ELSE <<error("Failed to sign up user in service", Object(<<errorDetail(out.error)>>))>>)

\* The logger call of SignupHook.handle when it found no user.
hookFindLog(email, found) ==
  IF userNotCreated(found) /\ ~isProd
  THEN <<debug("Signup hook skipped - user not created",
               Object(<<Entry(<<"e", "m", "a", "i", "l">>, String(email))>>))>>
  ELSE <<>>

\* The logger calls of the try block of SignupHook.handle and of its catch.
hookAssignLog(email, out) ==
  IF isProd THEN <<>>
  ELSE <<info("User role assigned in signup hook",
              Object(<<Entry(<<"r", "o", "l", "e">>, Text(classify(email)))>>))>>
       \o (IF out.ok
           THEN <<info("Successfully signed up user in signup hook:",
                       Object(<<Entry(<<"u", "s", "e", "r">>, UserObject(out.ret))>>))>>
           ELSE <<error("Failed to assign role in signup hook",
                        Object(<<errorDetail(out.error)>>))>>)

\* ----------------------------------------------------------------- steps
NoInput == [id |-> NoId, email |-> Undefined, name |-> Null, password |-> Null, roleId |-> NoId]
Idle == [via |-> "none", email |-> Undefined, stage |-> "Idle", created |-> FALSE, code |-> ""]
\* One signup request is between two awaited store calls at a time; the directory
\* calls run between its steps.
Slots == {1}

\* The outcome of a step: the operation, whether its call has returned, the
\* stage of the signup attempt it ends in, its input, the statement a store
\* fault was injected at (0: none), what the caller gets, the user row its
\* statements wrote and the role row its upsert returned.
Last(op, done, stage, in, fault, out) ==
  [op |-> op, done |-> done, stage |-> stage, in |-> in, fault |-> fault,
   ok |-> out.ok, error |-> out.error, ret |-> out.ret, user |-> out.tx.user,
   role |-> out.tx.role]

\* The store after a call, with the ids it generated within the model's bounds.
Store(out) ==
  /\ out.tx.nextUserId <= MaxUsers + 1
  /\ out.tx.nextRoleId <= MaxRoleIds + 1
  /\ users' = out.tx.users
  /\ roles' = out.tx.roles
  /\ accounts' = out.tx.accounts
  /\ nextUserId' = out.tx.nextUserId
  /\ nextRoleId' = out.tx.nextRoleId

\* The role ids a client may name: those generated so far and one that never was
\* (all ids never generated behave alike).
RoleIds == 1..(IF nextRoleId <= MaxRoleIds THEN nextRoleId ELSE MaxRoleIds)

Init ==
  /\ users = <<>>
  /\ roles = <<>>
  /\ accounts = {}
  /\ nextUserId = 1
  /\ nextRoleId = 1
  /\ config \in [ADMIN_EMAIL : AdminEmailConfigs, NODE_ENV : NodeEnvConfigs]
  /\ inflight = [s \in Slots |-> Idle]
  /\ last = [op |-> "none", done |-> TRUE, stage |-> "Idle", in |-> NoInput, fault |-> 0,
             ok |-> TRUE, error |-> NoError, ret |-> NoUser, user |-> NoId,
             role |-> NoRole]
  /\ log = <<>>
  /\ response = NoResponse

\* GET /users/:id
FindOne ==
  \E id \in UserIds :
    /\ Store(findOne(id))
    /\ last' = Last("findOne", TRUE, "Idle", [NoInput EXCEPT !.id = id], 0, findOne(id))
    /\ log' = findOneLog(id)
    /\ UNCHANGED <<config, inflight, response>>

\* POST /users
Create ==
  \E email \in DirectoryEmails, name \in NewNames, password \in NewPasswords,
     roleId \in {NoId} \cup RoleIds, fault \in {0, 2, 3} :
    LET dto == [id |-> NoId, email |-> email, name |-> name, password |-> password,
                roleId |-> roleId]
        out == create(dto, fault)
    IN /\ Store(out)
       /\ last' = Last("create", TRUE, "Idle", dto, fault, out)
       /\ log' = createLog(dto, fault)
       /\ UNCHANGED <<config, inflight, response>>

\* PATCH /users/:id
Update ==
  \E id \in UserIds, email \in DirectoryEmails \cup {Undefined},
     name \in UpdatedNames \cup {Null}, password \in UpdatedPasswords \cup {Null},
     fault \in {0, 2} :
    LET dto == [id |-> id, email |-> email, name |-> name, password |-> password,
                roleId |-> NoId]
        out == update(id, dto, fault)
    IN /\ fault = 2 => password # Null
       /\ Store(out)
       /\ last' = Last("update", TRUE, "Idle", dto, fault, out)
       /\ log' = updateLog(id, dto, fault)
       /\ UNCHANGED <<config, inflight, response>>

\* PATCH /users/:id/role
UpdateRole ==
  \E id \in UserIds, roleId \in RoleIds :
    LET out == updateRole(id, roleId) IN
    /\ Store(out)
    /\ last' = Last("updateRole", TRUE, "Idle", [NoInput EXCEPT !.id = id, !.roleId = roleId],
                    0, out)
    /\ log' = updateRoleLog(id, roleId)
    /\ UNCHANGED <<config, inflight, response>>

\* DELETE /users/:id
Remove ==
  \E id \in UserIds :
    LET out == remove(id) IN
    /\ Store(out)
    /\ last' = Last("remove", TRUE, "Idle", [NoInput EXCEPT !.id = id], 0, out)
    /\ log' = removeLog(id)
    /\ UNCHANGED <<config, inflight, response>>

\* The identity provider links an account of another provider to a user: a user
\* has many accounts, and only the password account has accountId = userId.
ExternalAccountId(u) == 100 + u
LinkAccount ==
  \E u \in DOMAIN users :
    /\ accounts' = accounts \cup
         {[userId |-> u, providerId |-> "github", accountId |-> ExternalAccountId(u),
           password |-> NoPassword]}
    /\ last' = Last("linkAccount", TRUE, "Idle", [NoInput EXCEPT !.id = u], 0,
                    Outcome(Begin, NoError, NoUser))
    /\ log' = <<>>
    /\ UNCHANGED <<users, roles, nextUserId, nextRoleId, config, inflight, response>>

\* AuthService.signup(dto), up to the return of signUpEmail.
SignupIdentity ==
  \E s \in Slots, email \in SignupEmails, name \in NewNames, password \in SignupPasswords :
    LET dto == [id |-> NoId, email |-> email, name |-> name, password |-> password,
                roleId |-> NoId]
        out == signUpEmail(dto)
    IN /\ inflight[s] = Idle
       /\ Store(out)
       /\ IF out.ok
          THEN /\ inflight' = [inflight EXCEPT ![s] =
                     [via |-> "service", email |-> email, stage |-> "IdentityCreated",
                      created |-> TRUE, code |-> ""]]
               /\ last' = Last("signup", FALSE, "IdentityCreated", dto, 0, out)
          ELSE /\ inflight' = inflight
               /\ last' = Last("signup", TRUE, "Rejected", dto, 0, signupCatch(out, email))
       /\ log' = signupIdentityLog(dto, out)
       /\ UNCHANGED <<config, response>>

\* AuthService.signup(dto), from isAdminEmail to its return.
SignupAssign ==
  \E s \in Slots, fault \in 0..2 :
    LET email == inflight[s].email
        out == assignUserRole(email, isAdminEmail(email), fault)
        in == [NoInput EXCEPT !.email = email]
    IN /\ inflight[s].via = "service"
       /\ inflight[s].stage = "IdentityCreated"
       /\ Store(IF out.ok THEN out ELSE signupCatch(out, email))
       /\ inflight' = [inflight EXCEPT ![s] = Idle]
       /\ last' = IF out.ok
                  THEN Last("signup", TRUE, "RoleBound", in, fault, out)
                  ELSE Last("signup", TRUE, "Degraded", in, fault, signupCatch(out, email))
       /\ log' = signupAssignLog(email, out)
       /\ UNCHANGED <<config, response>>

\* POST /api/auth/sign-up/email, the provider's own endpoint; the after hook
\* runs whether or not the endpoint created the user.
SignUpEndpoint ==
  \E s \in Slots, email \in SignupEmails, name \in NewNames, password \in SignupPasswords :
    LET dto == [id |-> NoId, email |-> email, name |-> name, password |-> password,
                roleId |-> NoId]
        out == signUpEmail(dto)
    IN /\ inflight[s] = Idle
       /\ Store(out)
       /\ inflight' = [inflight EXCEPT ![s] =
             [via |-> "hook", email |-> email, stage |-> "AfterEndpoint",
              created |-> out.ok, code |-> out.error.code]]
       /\ last' = Last("sign-up/email", FALSE,
                       IF out.ok THEN "IdentityCreated" ELSE "Rejected", dto, 0, out)
       /\ log' = <<>>
       /\ UNCHANGED <<config, response>>

\* SignupHook.handle(ctx), up to the return of findUnique and the test on it.
HookFind ==
  \E s \in Slots :
    LET email == inflight[s].email
        found == UserByEmail(users, email)
        in == [NoInput EXCEPT !.email = email]
    IN /\ inflight[s].via = "hook"
       /\ inflight[s].stage = "AfterEndpoint"
       /\ IF userNotCreated(found)
          THEN /\ inflight' = [inflight EXCEPT ![s] = Idle]
               /\ last' = Last("hook", TRUE, "Rejected", in, 0, Outcome(Begin, NoError, NoUser))
          ELSE /\ inflight' = [inflight EXCEPT ![s].stage = "HookFound"]
               /\ last' = Last("hook", FALSE, "HookFound", in, 0,
                               Outcome(Begin, NoError, NoUser))
       /\ log' = hookFindLog(email, found)
       /\ UNCHANGED <<users, roles, accounts, nextUserId, nextRoleId, config, response>>

\* SignupHook.handle(ctx), the try block and its catch.
HookAssign ==
  \E s \in Slots, fault \in 0..2 :
    LET email == inflight[s].email
        out == assignUserRole(email, isAdminEmail(email), fault)
        in == [NoInput EXCEPT !.email = email]
    IN /\ inflight[s].via = "hook"
       /\ inflight[s].stage = "HookFound"
       /\ Store(out)
       /\ inflight' = [inflight EXCEPT ![s] = Idle]
       /\ last' = IF out.ok
                  THEN Last("hook", TRUE, "RoleBound", in, fault, out)
                  ELSE Last("hook", TRUE, "Degraded", in, fault,
                            Outcome(out.tx, catch(out.error), NoUser))
       /\ log' = hookAssignLog(email, out)
       /\ UNCHANGED <<config, response>>

\* isAdminEmail applied to an email, the empty string included; the role name it
\* selects is recorded as the role of the outcome.
Classify ==
  \E email \in SignupEmails \cup {EmailEmpty} :
    /\ last' = Last("isAdminEmail", TRUE, "Idle", [NoInput EXCEPT !.email = email], 0,
                    Outcome([Begin EXCEPT !.role = [NoRole EXCEPT !.name = classify(email)]],
                            NoError, NoUser))
    /\ log' = <<>>
    /\ UNCHANGED <<users, roles, accounts, nextUserId, nextRoleId, config, inflight, response>>

\* LoggerService.info / warn / error / debug / verbose
Log ==
  \E level \in LogLevels, message \in LogMessages, context \in LogContexts :
    /\ log' = <<logCall(level, message, context)>>
    /\ UNCHANGED <<users, roles, accounts, nextUserId, nextRoleId, config, inflight, last, response>>

\* HttpExceptionFilter.catch(exception, host)
Catch ==
  \E exception \in Exceptions, request \in Requests, NODE_ENV \in NodeEnvs :
    LET errorResponse == buildErrorResponse(exception, request, NODE_ENV)
    IN /\ log' = <<logError(errorResponse, exception)>>
       /\ response' = [NODE_ENV |-> NODE_ENV, exception |-> exception, body |-> errorResponse]
       /\ UNCHANGED <<users, roles, accounts, nextUserId, nextRoleId, config, inflight, last>>

Next ==
  \/ FindOne
  \/ Create
  \/ Update
  \/ UpdateRole
  \/ Remove
  \/ LinkAccount
  \/ SignupIdentity
  \/ SignupAssign
  \/ SignUpEndpoint
  \/ HookFind
  \/ HookAssign
  \/ Classify
  \/ Log
  \/ Catch

Spec == Init /\ [][Next]_vars

\* The user directory runs the same whatever ADMIN_EMAIL is.
InitUsers == Init /\ config.ADMIN_EMAIL = Undefined /\ config.NODE_ENV = "production"

\* The signup protocol, with the directory calls that take a user away or move
\* it to another role between its steps.
NextSignup ==
  \/ SignupIdentity
  \/ SignupAssign
  \/ SignUpEndpoint
  \/ HookFind
  \/ HookAssign
  \/ UpdateRole
  \/ Remove

SpecSignup == Init /\ [][NextSignup]_vars

\* The two signup paths on their own: every role is bound by the signup policy.
NextPolicy ==
  \/ SignupIdentity
  \/ SignupAssign
  \/ SignUpEndpoint
  \/ HookFind
  \/ HookAssign

SpecPolicy == Init /\ [][NextPolicy]_vars

\* Every call that resolves a role: the two signup paths and create.
NextRoles ==
  \/ SignupIdentity
  \/ SignupAssign
  \/ SignUpEndpoint
  \/ HookFind
  \/ HookAssign
  \/ Create

SpecRoles == Init /\ [][NextRoles]_vars

\* The admin classification on its own and in AuthService.signup.
NextClassify ==
  \/ Classify
  \/ SignupIdentity
  \/ SignupAssign

SpecClassify == Init /\ [][NextClassify]_vars

\* LoggerService on its own.
NextLogger == Log

SpecLogger == InitUsers /\ [][NextLogger]_vars

\* HttpExceptionFilter on its own.
NextFilter == Catch

SpecFilter == InitUsers /\ [][NextFilter]_vars

\* Every call that writes an email: signup through AuthService and the
\* directory's create, update and remove, with a store that does not fail
\* (the failed transactions are those of SpecUsers and SpecSignup).
NextEmails ==
  \/ SignupIdentity
  \/ SignupAssign /\ last'.fault = 0
  \/ Create /\ last'.fault = 0
  \/ Update /\ last'.fault = 0
  \/ Remove

SpecEmails == InitUsers /\ [][NextEmails]_vars

\* prisma/seed.ts, run on an empty database: the three roles, and the seed's
\* users (as many of them as the bound on user ids admits), each bound to its
\* role and created without an Account row.
roleDefinitions ==
  <<[name |-> "ADMIN", description |-> "Administrator role"],
    [name |-> "PRODUCT_MANAGER", description |-> "Product Manager role"],
    [name |-> "USER", description |-> "Regular user role"]>>

EmailManager == <<"m", "@">>

seedUsers ==
  <<[email |-> EmailAdminLower, name |-> "Admin User", role |-> "ADMIN"],
    [email |-> EmailManager, name |-> "Manager User", role |-> "PRODUCT_MANAGER"],
    [email |-> EmailOther, name |-> "Regular User", role |-> "USER"]>>

seedDatabase ==
  LET n == IF MaxUsers < Len(seedUsers) THEN MaxUsers ELSE Len(seedUsers)
      seeded == [r \in DOMAIN roleDefinitions |-> roleDefinitions[r]]
  IN [roles |-> seeded,
      users |-> [u \in 1..n |->
                  [email |-> seedUsers[u].email, name |-> seedUsers[u].name,
                   roleId |-> CHOOSE r \in DOMAIN seeded : seeded[r].name = seedUsers[u].role]],
      nextUserId |-> n + 1,
      nextRoleId |-> Len(roleDefinitions) + 1]

InitSeeded ==
  /\ users = seedDatabase.users
  /\ roles = seedDatabase.roles
  /\ accounts = {}
  /\ nextUserId = seedDatabase.nextUserId
  /\ nextRoleId = seedDatabase.nextRoleId
  /\ config = [ADMIN_EMAIL |-> Undefined, NODE_ENV |-> "production"]
  /\ inflight = [s \in Slots |-> Idle]
  /\ last = [op |-> "none", done |-> TRUE, stage |-> "Idle", in |-> NoInput, fault |-> 0,
             ok |-> TRUE, error |-> NoError, ret |-> NoUser, user |-> NoId,
             role |-> NoRole]
  /\ log = <<>>
  /\ response = NoResponse

\* The user directory.
NextUsers ==
  \/ FindOne
  \/ Create
  \/ Update
  \/ UpdateRole
  \/ Remove
  \/ LinkAccount

SpecUsers == InitUsers /\ [][NextUsers]_vars

\* The user directory over the seeded database.
SpecSeeded == InitSeeded /\ [][NextUsers]_vars

\* ================================================================ claims

\* C1: after a successful signup, through AuthService.signup or through the
\* signup hook, the User row of the signup email is bound to the role named
\* ADMIN when the email equals ADMIN_EMAIL ignoring letter case, and to the
\* role named USER for every other email (an unset ADMIN_EMAIL equals none).
C1_SignupBindsRoleByAdminEmail ==
  (last.op \in {"signup", "hook"} /\ last.done /\ last.ok /\ last.user # NoId) =>
    LET email == last.in.email
        admin == config.ADMIN_EMAIL
        equalIgnoringCase ==
          /\ admin # Undefined
          /\ Len(admin) = Len(email)
          /\ \A i \in 1..Len(email) : LowerChar(admin[i]) = LowerChar(email[i])
        bound == UserByEmail(users, email)
    IN /\ bound = {last.user}
       /\ users[last.user].roleId \in DOMAIN roles
       /\ roles[users[last.user].roleId].name = (IF equalIgnoringCase THEN "ADMIN" ELSE "USER")

\* The hook has bound a lower-case email to ADMIN under an upper-case ADMIN_EMAIL.
C1_Witness ==
  /\ last.op = "hook" /\ last.done /\ last.ok
  /\ last.in.email = EmailAdminLower
  /\ config.ADMIN_EMAIL = EmailAdminUpper
  /\ last.user \in DOMAIN users
  /\ users[last.user].roleId \in DOMAIN roles
  /\ roles[users[last.user].roleId].name = "ADMIN"

C3_SignupFailsGenerically ==
  (last.op = "signup" /\ last.done /\ ~last.ok) =>
    /\ last.error = [type |-> "Error", code |-> "", message |-> "Unable to create account"]
    /\ last.ret = NoUser

\* AuthService.signup failed on a store fault at the user.update of its
\* role binding.
C3_Witness ==
  /\ last.op = "signup" /\ last.done /\ ~last.ok
  /\ last.stage = "Degraded" /\ last.fault = 2

\* C4: after a create call that succeeds, the new User row exists (bound to the
\* role named USER when roleId was omitted) together with its Credential row
\* (providerId 'credential', userId and accountId the new id, secret
\* hash(password)); after one that fails, neither the User row its statements
\* wrote nor a Credential row for it exists.
C4_CreateAllOrNothing ==
  last.op = "create" =>
    IF last.ok
    THEN /\ last.user \in DOMAIN users
         /\ users[last.user].email = last.in.email
         /\ last.in.roleId = NoId =>
              /\ users[last.user].roleId \in DOMAIN roles
              /\ roles[users[last.user].roleId].name = "USER"
         /\ last.in.roleId # NoId => users[last.user].roleId = last.in.roleId
         /\ \E a \in accounts :
              /\ a.userId = last.user /\ a.accountId = last.user
              /\ a.providerId = "credential"
              /\ a.password = hash(last.in.password)
    ELSE /\ last.user \notin DOMAIN users
         /\ \A a \in accounts : a.userId # last.user

\* A create wrote the User row and then failed at account.create.
C4_Witness ==
  /\ last.op = "create" /\ ~last.ok /\ last.fault = 3
  /\ last.user # NoId
  /\ last.user \notin DOMAIN users

C6_UpdatePasswordTouchesOnlyCredential ==
  [][last'.op = "update" =>
       LET id == last'.in.id
           target(a) == a.userId = id /\ a.accountId = id /\ a.providerId = "credential"
       IN /\ \A a \in accounts : ~target(a) => a \in accounts'
          /\ \A b \in accounts' :
               \/ b \in accounts
               \/ /\ target(b)
                  /\ last'.in.password # Null
                  /\ b.password = hash(last'.in.password)
                  /\ \E a \in accounts : target(a) /\ [a EXCEPT !.password = b.password] = b]_vars

\* An update changed the password of a user that also has an account of
\* another provider, which kept its (null) secret.
C6_Witness ==
  /\ last.op = "update" /\ last.ok /\ last.in.password # Null
  /\ \E a \in accounts :
       a.userId = last.in.id /\ a.providerId = "credential"
       /\ a.password = hash(last.in.password)
  /\ \E a \in accounts :
       a.userId = last.in.id /\ a.providerId = "github" /\ a.password = NoPassword

\* C7: findOne, update, updateRole and remove, called with an id that matches
\* no User row, fail with the NotFound error of message 'User not found' and
\* leave the User, Role and Credential tables as they were.
C7_MissingIdIsNotFound ==
  [][(/\ last'.op \in {"findOne", "update", "updateRole", "remove"}
      /\ last'.in.id \notin DOMAIN users) =>
       /\ ~last'.ok
       /\ last'.error = [type |-> "NotFoundException", code |-> "", message |-> "User not found"]
       /\ users' = users
       /\ roles' = roles
       /\ accounts' = accounts]_vars

\* An update that names a new email and a new password was refused for an id
\* that matches no row, with other users in the table.
C7_Witness ==
  /\ last.op = "update" /\ ~last.ok
  /\ last.in.id \notin DOMAIN users
  /\ last.in.email # Undefined /\ last.in.password # Null
  /\ last.error.type = "NotFoundException"
  /\ users # <<>>

\* C8: a successful remove(id) returns the user as it was before the deletion,
\* joined with its role; after it no User row has that id, findOne(id) fails
\* with NotFound and no Credential row has userId = id.
C8_RemoveReturnsSnapshotAndCascades ==
  [][\A id \in UserIds :
       (last'.op = "remove" /\ last'.in.id = id /\ last'.ok) =>
         /\ id \in DOMAIN users
         /\ last'.ret = [id |-> id, email |-> users[id].email, name |-> users[id].name,
                         roleId |-> users[id].roleId,
                         role |-> IF users[id].roleId \in DOMAIN roles
                                  THEN [id |-> users[id].roleId,
                                        name |-> roles[users[id].roleId].name,
                                        description |-> roles[users[id].roleId].description]
                                  ELSE NoRole]
         /\ id \notin DOMAIN users'
         /\ (findOne(id).error.type)' = "NotFoundException"
         /\ \A a \in accounts' : a.userId # id]_vars

\* A remove returned a user bound to the role USER; neither its row nor an
\* account of it is left, and another user still has its accounts.
C8_Witness ==
  /\ last.op = "remove" /\ last.ok
  /\ last.ret.id = last.in.id
  /\ last.ret.role.name = "USER"
  /\ last.in.id \notin DOMAIN users
  /\ \A a \in accounts : a.userId # last.in.id
  /\ \E u \in DOMAIN users : \E a \in accounts : a.userId = u

\* C9: when the signup hook runs for an email that has no User row, it returns
\* without an error and writes nothing: the User, Role and Credential tables
\* are as they were and no id is generated.
C9_HookSkipsMissingUser ==
  [][\A s \in Slots :
       (/\ inflight[s].via = "hook"
        /\ inflight[s].stage = "AfterEndpoint"
        /\ inflight'[s] # inflight[s]
        /\ UserByEmail(users, inflight[s].email) = {}) =>
         /\ last'.op = "hook" /\ last'.done /\ last'.ok
         /\ last'.error = NoError
         /\ inflight'[s] = Idle
         /\ users' = users
         /\ roles' = roles
         /\ accounts' = accounts
         /\ nextRoleId' = nextRoleId
         /\ nextUserId' = nextUserId]_vars

\* The hook returned for an email that the endpoint had accepted and whose User
\* row a remove took away before the hook looked it up.
C9_Witness ==
  /\ last.op = "hook" /\ last.done /\ last.ok
  /\ last.role = NoRole
  /\ UserByEmail(users, last.in.email) = {}
  /\ IsEmail(last.in.email)
  /\ nextUserId > 1
  /\ users = <<>>

\* C10: when the signup hook found the user and its role-binding transaction
\* fails, at the role upsert or at the user update, by a store fault or because
\* the row is gone, the hook raises the error of message 'Unable to create
\* account', which holds nothing of the cause; when the role upsert is the
\* statement that fails, no User row changes its role.
C10_HookFailsGenerically ==
  [][\A s \in Slots :
       (/\ inflight[s].via = "hook"
        /\ inflight[s].stage = "HookFound"
        /\ inflight'[s] # inflight[s]
        /\ ~last'.ok) =>
         /\ last'.op = "hook" /\ last'.done
         /\ last'.error = [type |-> "Error", code |-> "", message |-> "Unable to create account"]
         /\ last'.ret = NoUser
         /\ last'.fault = 1 =>
              /\ DOMAIN users' = DOMAIN users
              /\ \A u \in DOMAIN users : users'[u].roleId = users[u].roleId]_vars

\* The hook failed at its role upsert and the user it had found is still
\* without a role.
C10_Witness ==
  /\ last.op = "hook" /\ last.done /\ ~last.ok
  /\ last.fault = 1
  /\ \E u \in UserByEmail(users, last.in.email) : users[u].roleId = NoId

C12_UnknownRoleIsNotFound ==
  [][\A id \in UserIds :
       (/\ last'.op = "updateRole" /\ last'.in.id = id
        /\ id \in DOMAIN users
        /\ last'.in.roleId \notin DOMAIN roles) =>
         /\ ~last'.ok
         /\ last'.error.type = "NotFoundException"
         /\ id \in DOMAIN users'
         /\ users'[id].roleId = users[id].roleId]_vars

\* C13: create and update, called with an email that belongs to another user,
\* fail with a normalized error, not with the store's constraint error, and
\* leave every User row as it was.
C13_DuplicateEmailIsNormalized ==
  [][(/\ last'.op \in {"create", "update"}
      /\ last'.in.email # Undefined
      /\ last'.op = "update" => last'.in.id \in DOMAIN users
      /\ \E u \in UserByEmail(users, last'.in.email) : u # last'.in.id) =>
       /\ ~last'.ok
       /\ last'.error.type # "PrismaClientKnownRequestError"
       /\ users' = users]_vars

C15_MessageHidesSensitiveStrings ==
  LET RECURSIVE SensitiveStrings(_)
      SensitiveStrings(value) ==
        UNION {(IF /\ value.kind = "object"
                   /\ value.items[i].value.kind = "string"
                   /\ Len(value.items[i].value.str) > 0
                   /\ \E s \in {<<"p", "a", "s", "s", "w", "o", "r", "d">>, <<"t", "o", "k", "e", "n">>, <<"s", "e", "c", "r", "e", "t">>, <<"k", "e", "y">>} :
                        includes(toLowerCase(value.items[i].key), s)
                THEN {value.items[i].value.str} ELSE {})
               \cup SensitiveStrings(value.items[i].value) : i \in DOMAIN value.items}
  IN \A i \in DOMAIN log :
       \A secret \in SensitiveStrings(log[i].context) :
         ~includes(loggerArguments(log[i]).formattedMessage, secret)

\* C16: the error response HttpExceptionFilter builds carries a stack field
\* only when NODE_ENV is 'development'; whatever was thrown (HttpException,
\* plain Error, a value that is no Error), a response built in production has
\* no stack field.
C16_StackOnlyInDevelopment ==
  /\ response.body.hasStack => response.NODE_ENV = "development"
  /\ response.NODE_ENV = "production" =>
       /\ ~response.body.hasStack
       /\ response.body.stack = JsUndefined

C16_Witness ==
  /\ response.NODE_ENV = "production"
  /\ response.exception.kind = "Error"
  /\ response.exception.stack.kind = "string"
  /\ response.body.statusCode = 500
  /\ ~response.body.hasStack

\* C17: the role upsert and the update of the user's role reference in signup
\* role binding take effect together. After a role-binding attempt, of
\* AuthService.signup or of the signup hook, either both writes are visible
\* (the Role row of the selected name exists and the User row of the email
\* refers to it) or neither is (the Role and User tables are as they were), so
\* a Role row first created by an attempt whose user update fails does not
\* persist.
C17_RoleBindingIsAtomic ==
  [][\A s \in Slots :
       (/\ inflight[s].stage \in {"IdentityCreated", "HookFound"}
        /\ inflight'[s] # inflight[s]) =>
         LET email == inflight[s].email IN
         IF last'.ok
         THEN /\ \E r \in RoleByName(roles', classify(email)) :
                   \E u \in UserByEmail(users', email) : users'[u].roleId = r
              /\ \A r \in DOMAIN roles : r \in DOMAIN roles' /\ roles'[r] = roles[r]
         ELSE /\ roles' = roles
              /\ users' = users]_vars

\* A role-binding attempt failed at its user update when the Role table was
\* empty: the role id its upsert generated is spent and no Role row is left.
C17_Witness ==
  /\ last.op \in {"signup", "hook"} /\ last.done /\ ~last.ok
  /\ last.stage = "Degraded"
  /\ last.fault = 2
  /\ nextRoleId > 1
  /\ roles = <<>>

\* C18: if the identity provider has created the user and the role-binding
\* transaction of AuthService.signup then fails, the call fails, the identity
\* creation is not rolled back (the failing call leaves the User and Credential
\* tables as they were), and the User row the provider created, roleless when
\* the role binding started, still exists with no role bound.
C18_FailedBindingKeepsIdentity ==
  [][\A s \in Slots :
       (/\ inflight[s].via = "service"
        /\ inflight[s].stage = "IdentityCreated"
        /\ inflight'[s] # inflight[s]
        /\ ~assignUserRole(inflight[s].email, isAdminEmail(inflight[s].email), last'.fault).ok) =>
         /\ last'.op = "signup" /\ last'.done /\ ~last'.ok
         /\ users' = users
         /\ accounts' = accounts
         /\ \A u \in UserByEmail(users, inflight[s].email) :
              users[u].roleId = NoId =>
                /\ u \in UserByEmail(users', inflight[s].email)
                /\ users'[u].roleId = NoId
                /\ \E a \in accounts' : a.userId = u /\ a.providerId = "credential"]_vars

\* AuthService.signup failed in its role binding and the user of its email is
\* in the User table, roleless, with the credential the provider stored.
C18_Witness ==
  /\ last.op = "signup" /\ last.done /\ ~last.ok
  /\ last.stage = "Degraded"
  /\ \E u \in UserByEmail(users, last.in.email) :
       /\ users[u].roleId = NoId
       /\ \E a \in accounts : a.userId = u /\ a.providerId = "credential"

\* C19: in every signup attempt the role upsert and the update of the user's
\* role reference happen only after the identity provider has created the User
\* row in that attempt: no attempt reaches RoleBound without first passing
\* IdentityCreated.
C19_RoleBoundOnlyAfterIdentityCreated ==
  [][\A s \in Slots :
       (/\ inflight'[s] # inflight[s]
        /\ last'.op \in {"signup", "hook"}
        /\ last'.stage = "RoleBound") =>
         /\ inflight[s].stage \in {"IdentityCreated", "HookFound"}
         /\ inflight[s].created]_vars

\* C20: once a user is Degraded (its User row exists without a role and the
\* signup attempt that created it is over, its role binding having failed), no
\* later signup call and no later signup-hook run for the same email binds a
\* role to it: the only step that gives such a row a role is updateRole.
C20_DegradedBoundOnlyByUpdateRole ==
  [][\A u \in DOMAIN users :
       (/\ users[u].roleId = NoId
        /\ ~\E s \in Slots : inflight[s].created /\ inflight[s].email = users[u].email
        /\ u \in DOMAIN users'
        /\ users'[u].roleId # NoId) =>
         last'.op = "updateRole"]_vars

\* C21: update(id, {email?, name?, password}) applies the change of the User
\* fields and the change of the Credential secret together: when the credential
\* update fails, the call fails and the User rows (email and name included) and
\* the Credential rows are as they were before the call.
C21_UpdateAllOrNothing ==
  [][(last'.op = "update" /\ last'.fault = 2) =>
       /\ ~last'.ok
       /\ users' = users
       /\ accounts' = accounts
       /\ \A u \in DOMAIN users :
            u = last'.in.id =>
              /\ users'[u].email = users[u].email
              /\ users'[u].name = users[u].name]_vars

\* An update of an existing user that named a new email and a new name failed
\* at its credential update, and the row still has neither.
C21_Witness ==
  /\ last.op = "update" /\ last.fault = 2 /\ ~last.ok
  /\ last.in.password # Null
  /\ last.in.email # Undefined
  /\ last.in.name # Null
  /\ \E u \in DOMAIN users :
       /\ u = last.in.id
       /\ users[u].email # last.in.email
       /\ users[u].name # last.in.name

\* C22: when NODE_ENV is production, no operation of the core (signup, signup
\* hook, findOne, create, update, updateRole, remove) writes the detail of a
\* caught error to the log: none of its logger calls has the error's message in
\* its context.
C22_NoErrorDetailInProduction ==
  (/\ config.NODE_ENV = "production"
   /\ last.op \in {"signup", "hook", "findOne", "create", "update", "updateRole", "remove"}) =>
    \A i \in DOMAIN log :
      \A j \in DOMAIN log[i].context.items :
        log[i].context.items[j].key # <<"e", "r", "r", "o", "r">>

\* C23: after any sequence and interleaving of signup, create, update and
\* remove calls, no two User rows have the same email.
C23_EmailsAreUnique ==
  \A u, v \in DOMAIN users : users[u].email = users[v].email => u = v

\* An update that would have given a user the email of another one was refused
\* by the store, and both rows are there with their own emails.
C23_Witness ==
  /\ last.op = "update" /\ ~last.ok
  /\ last.error.code = "P2002"
  /\ last.in.id \in DOMAIN users
  /\ \E v \in DOMAIN users \ {last.in.id} : users[v].email = last.in.email
  /\ users[last.in.id].email # last.in.email

\* C24: after any sequence and interleaving of create, update and remove calls,
\* creates with the same email included, every Credential row's userId is the
\* id of an existing User row: no Credential survives its user's removal and
\* none is left behind by a failed create.
C24_CredentialsHaveUsers ==
  \A a \in accounts : a.userId \in DOMAIN users

\* A second create with the email of an existing user was refused after an
\* earlier user had been removed: each remaining user has its credential and
\* no credential belongs to the removed one or to the refused create.
C24_Witness ==
  /\ last.op = "create" /\ ~last.ok
  /\ UserByEmail(users, last.in.email) # {}
  /\ nextUserId > Cardinality(DOMAIN users) + 1
  /\ \A u \in DOMAIN users :
       \E a \in accounts : a.userId = u /\ a.providerId = "credential"
  /\ \A a \in accounts : a.userId \in DOMAIN users

\* C25: a signup attempt that is rejected because the email is already
\* registered leaves the existing user's role reference unchanged, also when
\* the signup hook runs for that attempt (a user moved to another role by
\* updateRole keeps that role).
C25_RejectedDuplicateKeepsRole ==
  [][\A s \in Slots :
       (/\ inflight'[s] # inflight[s]
        /\ \/ last'.op \in {"signup", "sign-up/email"}
              /\ UserByEmail(users, last'.in.email) # {}
              /\ last'.in.password = "password123"
           \/ inflight[s].code = "USER_ALREADY_EXISTS_USE_ANOTHER_EMAIL") =>
         /\ DOMAIN users' = DOMAIN users
         /\ \A u \in DOMAIN users : users'[u].roleId = users[u].roleId]_vars

\* C26: after update(id, {password: p}) returns successfully, a Credential row
\* with userId = id and providerId = 'credential' exists and holds hash(p) as
\* its secret, for every existing user, whether or not it had a matching
\* Credential row before the call.
C26_UpdatedPasswordIsStored ==
  (last.op = "update" /\ last.ok /\ last.in.password # Null) =>
    \E a \in accounts :
      /\ a.userId = last.in.id
      /\ a.providerId = "credential"
      /\ a.password = hash(last.in.password)

\* C27: update never changes a user's role reference and leaves every field
\* omitted from its input unchanged, and updateRole never changes a user's
\* email, name or Credential rows.
C27_UpdateFrames ==
  [][/\ last'.op = "update" =>
          /\ DOMAIN users' = DOMAIN users
          /\ \A u \in DOMAIN users : users'[u].roleId = users[u].roleId
          /\ \A u \in DOMAIN users :
               /\ (u # last'.in.id \/ last'.in.email = Undefined) =>
                    users'[u].email = users[u].email
               /\ (u # last'.in.id \/ last'.in.name = Null) =>
                    users'[u].name = users[u].name
          /\ last'.in.password = Null => accounts' = accounts
     /\ last'.op = "updateRole" =>
          /\ DOMAIN users' = DOMAIN users
          /\ \A u \in DOMAIN users :
               /\ users'[u].email = users[u].email
               /\ users'[u].name = users[u].name
          /\ accounts' = accounts]_vars

C27_Witness ==
  /\ last.op = "update"
  /\ last.ok
  /\ last.in.email = Undefined
  /\ last.in.password = Null
  /\ last.in.name # Null
  /\ users[last.in.id].name = last.in.name
  /\ users[last.in.id].roleId # NoId
  /\ \E a \in accounts : a.userId = last.in.id

\* C28: after any sequence of operations of the core, every User row's role
\* reference is either empty or the id of an existing Role row, and no
\* operation of the core deletes a Role row.
C28_RoleReferencesHold ==
  [][/\ \A u \in DOMAIN users' :
          users'[u].roleId = NoId \/ users'[u].roleId \in DOMAIN roles'
     /\ \A r \in DOMAIN roles : r \in DOMAIN roles' /\ roles'[r] = roles[r]]_vars

C28_Witness ==
  /\ last.op = "updateRole"
  /\ ~last.ok
  /\ last.in.id \in DOMAIN users
  /\ last.in.roleId \notin DOMAIN roles
  /\ users[last.in.id].roleId \in DOMAIN roles

\* C29: after any sequence of signups, with emails stored case-sensitively and
\* unique, at most one user is bound to the role named ADMIN by the signup
\* policy: two users whose emails differ only in letter case cannot both
\* obtain ADMIN.
C29_AtMostOneAdmin ==
  \A u, v \in DOMAIN users :
    (/\ users[u].roleId # NoId
     /\ users[v].roleId # NoId
     /\ roles[users[u].roleId].name = "ADMIN"
     /\ roles[users[v].roleId].name = "ADMIN") => u = v

\* C30: no argument that LoggerService passes to the underlying logger carries
\* an unmasked value of a sensitive key: the context object handed over next
\* to the formatted message is sanitized as well as the message.
C30_ContextArgumentIsSanitized ==
  \A i \in DOMAIN log :
    log[i].context # NoContext =>
      loggerArguments(log[i]).context = sanitizeContext(log[i].context)

====
